---- MODULE Spec2Model ----
(* Blog article listing of the website: the blog page (blog.mdx, kept in   *)
(* src/unnamed/part_000) and the legacy blog page (src/pages/blog.tsx).    *)
(* A JavaScript value is a record [k, s, a]: k is its kind, s the text of  *)
(* a string, a the elements of an array (themselves such values).          *)
EXTENDS Naturals, Sequences, FiniteSets

\* ---------------------------------------------------------------- bounds
MaxArticles == 2
MaxTags == 2

\* ------------------------------------------------------ JavaScript values
Undefined == [k |-> "undefined", s |-> "", a |-> <<>>]

Str(s) == [k |-> "string", s |-> s, a |-> <<>>]

Arr(a) == [k |-> "array", s |-> "", a |-> a]

\* ToBoolean: undefined and the empty string are falsy, an array is truthy.
Truthy(v) == ~(v.k = "undefined" \/ (v.k = "string" /\ v.s = ""))

\* Array.prototype.includes
includes(arr, x) == \E i \in DOMAIN arr : arr[i] = x

\* lib/as-array: an array is returned as it is, any other value is wrapped.
asArray(v) == IF v.k = "array" THEN v.a ELSE <<v>>

\* ------------------------------------------------------------ input sets
Labels == {"react", "webflow", "cpp"}

LabelOrder == <<"react", "webflow", "cpp">>

Links == <<"p1", "p2", "p3", "p4", "p5", "p6">>

RECURSIVE SeqsUpTo(_, _)
\* all sequences over S of length at most n
SeqsUpTo(S, n) ==
  IF n = 0 THEN {<<>>}
  ELSE LET shorter == SeqsUpTo(S, n - 1)
       IN shorter \cup {Append(q, x) : q \in shorter, x \in S}

\* the tag lists of an article's frontmatter: labels in the order of
\* LabelOrder, none repeated, at most MaxTags of them
TagLists ==
  {q \in SeqsUpTo(1..Len(LabelOrder), MaxTags) :
     \A i \in 1..(Len(q) - 1) : q[i] < q[i + 1]}

LabelArr(q) == Arr([i \in DOMAIN q |-> Str(LabelOrder[q[i]])])

\* frontmatter tags: missing, a single label, or a list of labels
ArticleTags ==
  {Undefined} \cup {Str(l) : l \in Labels} \cup {LabelArr(q) : q \in TagLists}

QueryLabels == {"react", "webflow"}

StrArrays == {Arr([i \in DOMAIN q |-> Str(q[i])]) : q \in SeqsUpTo(QueryLabels, MaxTags)}

\* router query.tag: absent, one string (possibly empty), or several strings
QueryValues == {Undefined, Str("")} \cup {Str(l) : l \in Labels} \cup StrArrays

\* the tagFilter prop of the legacy page: string[] | undefined
TagFilterProps == {Undefined} \cup StrArrays

\* publication dates of n articles, most recent first: the oldest is day 1
\* and each article is of the same day as the next one or of the day after
DateLists(n) ==
  {e \in [1..n -> 1..n] :
     /\ n > 0 => e[n] = 1
     /\ \A i \in 1..(n - 1) : e[i] \in {e[i + 1], e[i + 1] + 1}}

\* article lists as the content source delivers them: links are unique and
\* the dates descend (most recent first)
ArticleLists ==
  UNION {
    {[i \in 1..n |-> [link |-> Links[i], tags |-> t[i], date |-> d[i]]] :
       t \in [1..n -> ArticleTags], d \in DateLists(n)}
    : n \in 0..MaxArticles}

\* ------------------------------------------------------- lib (not in src)
\* the articles returned oldest first
getAllArticlesOldestFirst(content) ==
  [i \in DOMAIN content |-> content[Len(content) + 1 - i]]

\* lib/all-blogs and lib/get-all-articles both read the content source and
\* return its articles, most recent first.
getAllArticles(content) == content

RECURSIVE CountArticles(_, _)
\* the number of articles whose tags reference the label
CountArticles(articles, tag) ==
  IF articles = <<>> THEN 0
  ELSE (IF includes(asArray(Head(articles).tags), tag) THEN 1 ELSE 0)
       + CountArticles(Tail(articles), tag)

RECURSIVE DistinctTags(_, _)
\* the string labels of the articles in the order of their first occurrence
DistinctTags(tags, seen) ==
  IF tags = <<>> THEN seen
  ELSE DistinctTags(Tail(tags),
         IF Head(tags).k = "string" /\ ~includes(seen, Head(tags))
         THEN Append(seen, Head(tags)) ELSE seen)

RECURSIVE FlatTags(_)
FlatTags(articles) ==
  IF articles = <<>> THEN <<>>
  ELSE asArray(Head(articles).tags) \o FlatTags(Tail(articles))

\* one entry per occurrence of a label instead of one per distinct label
extractRelevantTagsPerOccurrence(articles) ==
  LET isLabel(tag) == tag.k = "string"
      labels == SelectSeq(FlatTags(articles), isLabel)
  IN [i \in DOMAIN labels |->
        [tag |-> labels[i].s, count |-> CountArticles(articles, labels[i])]]

\* lib/tags: one entry per distinct label with the count of the articles
\* that reference it
extractRelevantTags(articles) ==
  LET labels == DistinctTags(FlatTags(articles), <<>>)
  IN [i \in DOMAIN labels |->
        [tag |-> labels[i].s, count |-> CountArticles(articles, labels[i])]]

\* ------------------------------------------------- blog.mdx (part_000)
\* a single value is dropped instead of wrapped
TagsFilterArraysOnly(tag) == IF tag.k = "array" THEN tag.a ELSE <<>>

\* const tagsFilter = !query.tag ? [] : asArray(query.tag)
TagsFilter(tag) == IF ~Truthy(tag) THEN <<>> ELSE asArray(tag)

\* every requested tag is demanded instead of some tag
MatchesEvery(article, tagsFilter) ==
  \/ Len(tagsFilter) = 0
  \/ \A i \in DOMAIN tagsFilter : includes(asArray(article.tags), tagsFilter[i])

\* every tag of the article is demanded to be requested, which an article
\* without tags fulfils
MatchesEveryOwnTag(article, tagsFilter) ==
  \/ Len(tagsFilter) = 0
  \/ \A i \in DOMAIN asArray(article.tags) :
       includes(tagsFilter, asArray(article.tags)[i])

\* the predicate handed to articles.filter
Matches(article, tagsFilter) ==
  \/ Len(tagsFilter) = 0
  \/ \E i \in DOMAIN asArray(article.tags) :
       includes(tagsFilter, asArray(article.tags)[i])

RECURSIVE FilterArticlesReversed(_, _)
\* the elements that pass, last first
FilterArticlesReversed(articles, tagsFilter) ==
  IF articles = <<>> THEN <<>>
  ELSE LET rest == FilterArticlesReversed(Tail(articles), tagsFilter)
       IN IF Matches(Head(articles), tagsFilter)
          THEN rest \o <<Head(articles)>>
          ELSE rest

RECURSIVE FilterArticles(_, _)
\* Array.prototype.filter: the elements that pass, in the order of the array
FilterArticles(articles, tagsFilter) ==
  IF articles = <<>> THEN <<>>
  ELSE LET rest == FilterArticles(Tail(articles), tagsFilter)
       IN IF Matches(Head(articles), tagsFilter)
          THEN <<Head(articles)>> \o rest
          ELSE rest

\* the filter applied also to an empty tagsFilter, by a predicate without
\* its length test
BlogAlwaysFilters(tag, blogs) ==
  LET tagsFilter == TagsFilter(tag)
      some(article) ==
        \E i \in DOMAIN asArray(article.tags) :
          includes(tagsFilter, asArray(article.tags)[i])
  IN [tagsFilter |-> tagsFilter,
      allTags |-> extractRelevantTags(blogs),
      newsletter |-> Len(tagsFilter) = 0,
      articles |-> SelectSeq(blogs, some)]

\* the tag list taken from the filtered articles
BlogTagsOfFiltered(tag, blogs) ==
  LET tagsFilter == TagsFilter(tag)
      articles == IF Len(tagsFilter) > 0
                  THEN FilterArticles(blogs, tagsFilter)
                  ELSE blogs
  IN [tagsFilter |-> tagsFilter,
      allTags |-> extractRelevantTags(articles),
      newsletter |-> Len(tagsFilter) = 0,
      articles |-> articles]

\* every article shown when the filter matches none
BlogFallsBackToAll(tag, blogs) ==
  LET tagsFilter == TagsFilter(tag)
      articles == IF Len(tagsFilter) > 0 /\ FilterArticles(blogs, tagsFilter) # <<>>
                  THEN FilterArticles(blogs, tagsFilter)
                  ELSE blogs
  IN [tagsFilter |-> tagsFilter,
      allTags |-> extractRelevantTags(blogs),
      newsletter |-> Len(tagsFilter) = 0,
      articles |-> articles]

\* the filtered list left out of the result
BlogUnfiltered(tag, blogs) ==
  LET tagsFilter == TagsFilter(tag)
  IN [tagsFilter |-> tagsFilter,
      allTags |-> extractRelevantTags(blogs),
      newsletter |-> Len(tagsFilter) = 0,
      articles |-> blogs]

\* one call of the Blog component of blog.mdx: what it hands to TagList,
\* Newsletter and BlogCardList
Blog(tag, blogs) ==
  LET tagsFilter == TagsFilter(tag)
      allTags == extractRelevantTags(blogs)
      articles == IF Len(tagsFilter) > 0
                  THEN FilterArticles(blogs, tagsFilter)
                  ELSE blogs
  IN [tagsFilter |-> tagsFilter,
      allTags |-> allTags,
      newsletter |-> Len(tagsFilter) = 0,
      articles |-> articles]

\* the filter done in place: the shared array loses what does not pass
AllBlogsFilteredInPlace(tag, blogs) ==
  IF Len(TagsFilter(tag)) > 0 THEN FilterArticles(blogs, TagsFilter(tag)) ELSE blogs

\* the shared allBlogs array after one call of Blog: `let articles = allBlogs`
\* copies the reference and filter() returns a new array that only the local
\* binding takes, so the array is as before
AllBlogsAfterBlog(tag, blogs) == blogs

\* ------------------------------------------------------ pages/blog.tsx
\* a rejected load caught and the build carried on without articles
LoadOutcomeSwallowed(ok) == "resolved"

\* getStaticProps awaits getAllArticles() without a try/catch: its promise
\* resolves when the load does and rejects when the load does
LoadOutcome(ok) == IF ok THEN "resolved" ELSE "rejected"

\* the fallback left out: articles
OrEmptyUnguarded(v) == v

\* articles || []
OrEmpty(v) == IF Truthy(v) THEN v ELSE Arr(<<>>)

\* the length test left out: tagFilter
HasTagFilterAnyArray(tagFilter) == Truthy(tagFilter)

\* tagFilter && tagFilter.length > 0, as the conditions of the page read it
HasTagFilter(tagFilter) == Truthy(tagFilter) /\ Len(tagFilter.a) > 0

\* the last element instead of the first
RecentArticleLast(articles) ==
  IF Len(OrEmpty(articles).a) = 0 THEN <<>>
  ELSE <<OrEmpty(articles).a[Len(OrEmpty(articles).a)]>>

\* (articles || [])[0]: nothing for an empty list
RecentArticle(articles) ==
  IF Len(OrEmpty(articles).a) = 0 THEN <<>> ELSE <<OrEmpty(articles).a[1]>>

\* the props of one ArticleCard
ArticleCard(article) ==
  [link |-> article.link, date |-> article.date, tags |-> OrEmpty(article.tags)]

\* the cards rendered last article first
LegacyBlogCardsReversed(articles, tagFilter) ==
  LET hasTagFilter == HasTagFilter(tagFilter)
      recentArticle == RecentArticle(articles)
      list == OrEmpty(articles).a
  IN [tagFilter |-> tagFilter,
      threw |-> OrEmpty(articles).k # "array",
      hasTagFilter |-> hasTagFilter,
      filterBy |-> IF hasTagFilter THEN tagFilter.a ELSE <<>>,
      featured |-> IF recentArticle # <<>> /\ ~hasTagFilter THEN recentArticle ELSE <<>>,
      newsletter |-> ~hasTagFilter,
      cards |-> [i \in DOMAIN list |-> ArticleCard(list[Len(list) + 1 - i])]]

\* the newsletter put inside the featured block's condition
LegacyBlogNewsletterWithFeatured(articles, tagFilter) ==
  LET hasTagFilter == HasTagFilter(tagFilter)
      recentArticle == RecentArticle(articles)
      list == OrEmpty(articles).a
  IN [tagFilter |-> tagFilter,
      threw |-> OrEmpty(articles).k # "array",
      hasTagFilter |-> hasTagFilter,
      filterBy |-> IF hasTagFilter THEN tagFilter.a ELSE <<>>,
      featured |-> IF recentArticle # <<>> /\ ~hasTagFilter THEN recentArticle ELSE <<>>,
      newsletter |-> recentArticle # <<>> /\ ~hasTagFilter,
      cards |-> [i \in DOMAIN list |-> ArticleCard(list[i])]]

\* the featured article left out of the cards
LegacyBlogCardsSkipFeatured(articles, tagFilter) ==
  LET hasTagFilter == HasTagFilter(tagFilter)
      recentArticle == RecentArticle(articles)
      list == IF recentArticle # <<>> /\ ~hasTagFilter
              THEN Tail(OrEmpty(articles).a) ELSE OrEmpty(articles).a
  IN [tagFilter |-> tagFilter,
      threw |-> OrEmpty(articles).k # "array",
      hasTagFilter |-> hasTagFilter,
      filterBy |-> IF hasTagFilter THEN tagFilter.a ELSE <<>>,
      featured |-> IF recentArticle # <<>> /\ ~hasTagFilter THEN recentArticle ELSE <<>>,
      newsletter |-> ~hasTagFilter,
      cards |-> [i \in DOMAIN list |-> ArticleCard(list[i])]]

\* one call of the Blog component of pages/blog.tsx: the blocks it renders
LegacyBlog(articles, tagFilter) ==
  LET hasTagFilter == HasTagFilter(tagFilter)
      recentArticle == RecentArticle(articles)
      list == OrEmpty(articles).a
  IN [tagFilter |-> tagFilter,
      threw |-> OrEmpty(articles).k # "array",
      hasTagFilter |-> hasTagFilter,
      filterBy |-> IF hasTagFilter THEN tagFilter.a ELSE <<>>,
      featured |-> IF recentArticle # <<>> /\ ~hasTagFilter THEN recentArticle ELSE <<>>,
      newsletter |-> ~hasTagFilter,
      cards |-> [i \in DOMAIN list |-> ArticleCard(list[i])]]

\* the articles prop after one call of the legacy Blog: indexing and map()
\* read it and leave it as it was
ArticlesAfterLegacyBlog(articles, tagFilter) == articles

\* ----------------------------------------------------------------- state
\* allBlogs: the articles of the content source as lib/all-blogs holds them
\* query: router query.tag; props: the static props of pages/blog.tsx
\* page, view, legacy: the page on display and what its component rendered
\* source: whether the content source could be read by getStaticProps
\* load: the promise of getStaticProps; attempts: its calls of getAllArticles
\* renders: the locals of the component calls that run side by side
VARIABLES allBlogs, query, props, page, view, legacy, source, load, attempts, renders

vars == <<allBlogs, query, props, page, view, legacy, source, load, attempts, renders>>

\* nothing rendered by blog.mdx
NoView == [tagsFilter |-> <<>>, allTags |-> <<>>, newsletter |-> FALSE, articles |-> <<>>]

\* nothing rendered by pages/blog.tsx
NoLegacy ==
  [tagFilter |-> Undefined, threw |-> FALSE, hasTagFilter |-> FALSE, filterBy |-> <<>>,
   featured |-> <<>>, newsletter |-> FALSE, cards |-> <<>>]

\* the component calls that may run side by side
Renders == {"a", "b"}

\* a call that has not started
NoRender ==
  [pc |-> "idle", page |-> "none", input |-> Undefined, tagsFilter |-> <<>>,
   allTags |-> <<>>, view |-> NoView, legacy |-> NoLegacy]

Init ==
  /\ renders = [r \in Renders |-> NoRender]
  /\ allBlogs \in ArticleLists
  /\ query = Undefined
  /\ props = [articles |-> Undefined]
  /\ page = "none"
  /\ view = NoView
  /\ legacy = NoLegacy
  /\ source = "unread"
  /\ load = "idle"
  /\ attempts = 0

\* getStaticProps of pages/blog.tsx is called by the build, while no page is
\* being rendered: it calls getAllArticles() and awaits it
GetStaticPropsCall ==
  /\ page = "none"
  /\ load = "idle"
  /\ load' = "pending"
  /\ attempts' = attempts + 1
  /\ UNCHANGED <<allBlogs, query, props, page, view, legacy, source, renders>>

\* the awaited load settles: the source was read and the props hold its
\* articles, or it could not be read and no props are returned
GetStaticPropsSettle ==
  \E ok \in BOOLEAN :
    /\ load = "pending"
    /\ source' = IF ok THEN "read" ELSE "unavailable"
    /\ load' = LoadOutcome(ok)
    /\ props' = IF ok THEN [props EXCEPT !.articles = Arr(getAllArticles(allBlogs))]
                 ELSE props
    /\ UNCHANGED <<allBlogs, query, page, view, legacy, attempts, renders>>

\* getStaticProps of pages/blog.tsx: the build loads the page's articles once
GetStaticProps == GetStaticPropsCall \/ GetStaticPropsSettle

\* the router shows blog.mdx under a query and Blog() renders
RenderBlog ==
  \E tag \in QueryValues :
    /\ page = "none"
    /\ query' = tag
    /\ page' = "blog.mdx"
    /\ view' = Blog(tag, allBlogs)
    /\ allBlogs' = AllBlogsAfterBlog(tag, allBlogs)
    /\ UNCHANGED <<props, legacy, source, load, attempts, renders>>

\* the page rendered without waiting for the load to settle
RenderLegacyUnawaited ==
  \E tagFilter \in TagFilterProps :
    /\ page = "none"
    /\ page' = "pages/blog.tsx"
    /\ legacy' = LegacyBlog(props.articles, tagFilter)
    /\ props' = [props EXCEPT !.articles = ArticlesAfterLegacyBlog(props.articles, tagFilter)]
    /\ UNCHANGED <<allBlogs, query, view, source, load, attempts, renders>>

\* pages/blog.tsx renders with the page's props and a caller's tagFilter:
\* with the props of a resolved getStaticProps, or without any where the
\* component is used with no build of its own
RenderLegacy ==
  \E tagFilter \in TagFilterProps :
    /\ page = "none"
    /\ load \in {"idle", "resolved"}
    /\ page' = "pages/blog.tsx"
    /\ legacy' = LegacyBlog(props.articles, tagFilter)
    /\ props' = [props EXCEPT !.articles = ArticlesAfterLegacyBlog(props.articles, tagFilter)]
    /\ UNCHANGED <<allBlogs, query, view, source, load, attempts, renders>>

\* the router leaves the page and its component unmounts
Leave ==
  /\ page # "none"
  /\ page' = "none"
  /\ query' = Undefined
  /\ view' = NoView
  /\ legacy' = NoLegacy
  /\ UNCHANGED <<allBlogs, props, source, load, attempts, renders>>

Next == GetStaticProps \/ RenderBlog \/ RenderLegacy \/ Leave

Spec == Init /\ [][Next]_vars

\* ------------------------------------------- component calls side by side
\* the tag inputs of the calls that run side by side
ConcQueries == {Undefined, Str("react"), Arr(<<Str("webflow")>>)}

ConcTagFilters == {Undefined, Arr(<<Str("react")>>)}

\* tagsFilter kept in one module-level variable: a call reads what the other
\* call has put there
TagsFilterShared(rs, r) ==
  IF \E o \in Renders \ {r} : rs[o].page = "blog.mdx"
  THEN rs[CHOOSE o \in Renders \ {r} : rs[o].page = "blog.mdx"].tagsFilter
  ELSE rs[r].tagsFilter

\* the tagsFilter a call of Blog filters by: the const of that call
TagsFilterSeen(rs, r) == rs[r].tagsFilter

\* the build has loaded the articles before any page is requested
InitConc ==
  /\ renders = [r \in Renders |-> NoRender]
  /\ allBlogs \in ArticleLists
  /\ query = Undefined
  /\ props = [articles |-> Arr(getAllArticles(allBlogs))]
  /\ page = "none"
  /\ view = NoView
  /\ legacy = NoLegacy
  /\ source = "read"
  /\ load = "resolved"
  /\ attempts = 1

\* a call of Blog of blog.mdx reads its query and computes tagsFilter and
\* allTags
BlogEnter(r) ==
  \E tag \in ConcQueries :
    /\ renders[r].pc = "idle"
    /\ renders' = [renders EXCEPT ![r] =
                     [@ EXCEPT !.pc = "entered", !.page = "blog.mdx", !.input = tag,
                               !.tagsFilter = TagsFilter(tag),
                               !.allTags = extractRelevantTags(allBlogs)]]
    /\ UNCHANGED <<allBlogs, query, props, page, view, legacy, source, load, attempts>>

\* the call filters allBlogs by its tagsFilter and returns its element
BlogReturn(r) ==
  LET tagsFilter == TagsFilterSeen(renders, r)
      articles == IF Len(tagsFilter) > 0
                  THEN FilterArticles(allBlogs, tagsFilter)
                  ELSE allBlogs
  IN /\ renders[r].pc = "entered"
     /\ renders[r].page = "blog.mdx"
     /\ renders' = [renders EXCEPT ![r] =
                      [@ EXCEPT !.pc = "done",
                                !.view = [tagsFilter |-> tagsFilter,
                                          allTags |-> renders[r].allTags,
                                          newsletter |-> Len(tagsFilter) = 0,
                                          articles |-> articles]]]
     /\ allBlogs' = AllBlogsAfterBlog(renders[r].input, allBlogs)
     /\ UNCHANGED <<query, props, page, view, legacy, source, load, attempts>>

\* a call of Blog of pages/blog.tsx takes its props
LegacyEnter(r) ==
  \E tagFilter \in ConcTagFilters :
    /\ renders[r].pc = "idle"
    /\ renders' = [renders EXCEPT ![r] =
                     [@ EXCEPT !.pc = "entered", !.page = "pages/blog.tsx",
                               !.input = tagFilter]]
    /\ UNCHANGED <<allBlogs, query, props, page, view, legacy, source, load, attempts>>

\* the call reads the articles prop and returns its element
LegacyReturn(r) ==
  /\ renders[r].pc = "entered"
  /\ renders[r].page = "pages/blog.tsx"
  /\ renders' = [renders EXCEPT ![r] =
                   [@ EXCEPT !.pc = "done",
                             !.legacy = LegacyBlog(props.articles, renders[r].input)]]
  /\ props' = [props EXCEPT !.articles =
                 ArticlesAfterLegacyBlog(props.articles, renders[r].input)]
  /\ UNCHANGED <<allBlogs, query, page, view, legacy, source, load, attempts>>

NextConc ==
  \E r \in Renders : BlogEnter(r) \/ BlogReturn(r) \/ LegacyEnter(r) \/ LegacyReturn(r)

SpecConc == InitConc /\ [][NextConc]_vars

\* ------------------------------------------------------------ properties
\* the labels an article carries: none when tags is missing
TagsOf(article) ==
  IF article.tags.k = "array"
  THEN {article.tags.a[i].s : i \in {j \in DOMAIN article.tags.a : article.tags.a[j].k = "string"}}
  ELSE IF article.tags.k = "string" THEN {article.tags.s} ELSE {}

\* the requested tag set a tag input stands for: absent or empty gives the
\* empty set, one string its singleton, several strings their distinct ones
Requested(input) ==
  IF input.k = "array" THEN {input.a[i].s : i \in DOMAIN input.a}
  ELSE IF input.k = "string" /\ input.s # "" THEN {input.s} ELSE {}

\* the elements of a sequence
Elems(q) == {q[i] : i \in DOMAIN q}

\* the place of an article of allBlogs, found by its link
Place(article) == CHOOSE i \in DOMAIN allBlogs : allBlogs[i].link = article.link

Shown == page = "blog.mdx"

ShownLegacy == page = "pages/blog.tsx"

\* the article list the legacy page was given: none when the prop is missing
Given == IF props.articles.k = "array" THEN props.articles.a ELSE <<>>

\* C1: under a non-empty requested tag set the blog page lists an article
\* of allBlogs if and only if at least one of its tags is requested, and
\* lists nothing else.
C1_UnionFilter ==
  (Shown /\ Requested(query) # {}) =>
    /\ \A i \in DOMAIN allBlogs :
         (allBlogs[i] \in Elems(view.articles))
           <=> (TagsOf(allBlogs[i]) \cap Requested(query) # {})
    /\ Elems(view.articles) \subseteq Elems(allBlogs)

\* an article tagged [react, webflow] is listed and one tagged [cpp] is not
\* when react alone is requested
C1_Witness ==
  /\ Shown
  /\ query = Str("react")
  /\ Len(allBlogs) = 2
  /\ allBlogs[1].tags = LabelArr(<<1, 2>>)
  /\ allBlogs[2].tags = LabelArr(<<3>>)
  /\ view.articles = <<allBlogs[1]>>

\* C2: with an empty requested tag set the blog page lists allBlogs itself:
\* the same articles in the same order.
C2_IdentityFilter ==
  (Shown /\ Requested(query) = {}) => view.articles = allBlogs

\* two differently tagged articles listed under an empty query value
C2_Witness ==
  /\ Shown
  /\ query = Str("")
  /\ Len(allBlogs) = 2
  /\ allBlogs[1].tags = Undefined
  /\ allBlogs[2].tags = LabelArr(<<1>>)
  /\ view.articles = allBlogs

\* C3: the listed articles are a subsequence of allBlogs: each is an article
\* of allBlogs and the places of the listed articles strictly ascend.
C3_OrderPreserved ==
  Shown =>
    /\ \A j \in DOMAIN view.articles : view.articles[j] \in Elems(allBlogs)
    /\ \A j \in DOMAIN view.articles : \A k \in DOMAIN view.articles :
         j < k => Place(view.articles[j]) < Place(view.articles[k])

\* two articles of different dates pass a filter and keep their order
C3_Witness ==
  /\ Shown
  /\ Requested(query) # {}
  /\ Len(view.articles) = 2
  /\ view.articles[1].date > view.articles[2].date
  /\ view.articles[1].tags # view.articles[2].tags

\* C4: the query value is compared as the set of its distinct labels: an
\* absent or empty value gives no label, one string its singleton, several
\* strings their distinct elements.
C4_Normalized ==
  Shown =>
    /\ Elems(view.tagsFilter) = {Str(l) : l \in Requested(query)}
    /\ (query = Undefined \/ query = Str("")) => view.tagsFilter = <<>>
    /\ (query.k = "string" /\ query.s # "") => Elems(view.tagsFilter) = {query}
    /\ query.k = "array" => Elems(view.tagsFilter) = Elems(query.a)

\* a repeated label is requested once
C4_Witness ==
  /\ Shown
  /\ query = Arr(<<Str("react"), Str("react")>>)
  /\ Elems(view.tagsFilter) = {Str("react")}
  /\ Len(view.articles) = 1
  /\ Len(allBlogs) = 2

\* C5: the legacy page features nothing under a tag filter and nothing for an
\* empty or missing list; otherwise it features the first article given.
C5_Featured ==
  ShownLegacy =>
    /\ Requested(legacy.tagFilter) # {} => legacy.featured = <<>>
    /\ Given = <<>> => legacy.featured = <<>>
    /\ (Requested(legacy.tagFilter) = {} /\ Given # <<>>) =>
         legacy.featured = <<Given[1]>>

\* the first of two articles is featured when no filter is given
C5_Witness ==
  /\ ShownLegacy
  /\ legacy.tagFilter = Undefined
  /\ Len(Given) = 2
  /\ Given[1] # Given[2]
  /\ legacy.featured = <<allBlogs[1]>>

\* the labels of the tag list handed to TagList
SummaryLabels == {view.allTags[i].tag : i \in DOMAIN view.allTags}

\* C6: whatever is requested, the tag list of the blog page is the one of the
\* unfiltered page, and every label of every article of allBlogs is in it.
C6_SummaryOfFullList ==
  Shown =>
    /\ view.allTags = Blog(Undefined, allBlogs).allTags
    /\ \A i \in DOMAIN allBlogs : TagsOf(allBlogs[i]) \subseteq SummaryLabels

\* a filter hides an article whose label stays in the tag list
C6_Witness ==
  /\ Shown
  /\ Requested(query) # {}
  /\ Len(view.articles) < Len(allBlogs)
  /\ \E l \in SummaryLabels : \A j \in DOMAIN view.articles : l \notin TagsOf(view.articles[j])

\* the articles of the end-to-end scenario: p1 tagged react, p2 tagged webflow
ScenarioArticles ==
  <<[link |-> "p1", tags |-> Arr(<<Str("react")>>), date |-> 2],
    [link |-> "p2", tags |-> Arr(<<Str("webflow")>>), date |-> 1]>>

\* the articles of a list that carry a requested label, in the order of the list
AnyMatch(articles, T) ==
  LET carries(article) == TagsOf(article) \cap T # {}
  IN IF T = {} THEN articles ELSE SelectSeq(articles, carries)

C8_IsFiltered ==
  /\ Shown => ((~view.newsletter) <=> Requested(query) # {})
  /\ Shown => ((Len(view.tagsFilter) > 0) <=> Requested(query) # {})
  /\ ShownLegacy => (legacy.hasTagFilter <=> Requested(legacy.tagFilter) # {})

\* a filter is active though no article carries the requested label
C8_Witness ==
  /\ Shown
  /\ query = Str("cpp")
  /\ Len(allBlogs) = 2
  /\ \A i \in DOMAIN allBlogs : "cpp" \notin TagsOf(allBlogs[i])
  /\ Len(view.tagsFilter) = 1
  /\ ~view.newsletter

\* C9: when labels are requested that no article of allBlogs carries, the
\* blog page still renders: its article list is empty, its tag list is the
\* one of all articles and the filter counts as active.
C9_UnknownTags ==
  (Shown /\ Requested(query) # {}
     /\ \A i \in DOMAIN allBlogs : TagsOf(allBlogs[i]) \cap Requested(query) = {}) =>
    /\ view.articles = <<>>
    /\ SummaryLabels = UNION {TagsOf(allBlogs[i]) : i \in DOMAIN allBlogs}
    /\ ~view.newsletter

\* two tagged articles, neither of them listed under an unknown label
C9_Witness ==
  /\ Shown
  /\ query = Arr(<<Str("webflow"), Str("webflow")>>)
  /\ Len(allBlogs) = 2
  /\ \A i \in DOMAIN allBlogs : TagsOf(allBlogs[i]) = {"react", "cpp"}
  /\ view.articles = <<>>

\* C10: no render of either page throws, and for an empty or missing article
\* list with nothing requested every part degrades to empty: no article, no
\* featured article, no tag, no active filter.
C10_EmptyRepository ==
  /\ ShownLegacy => ~legacy.threw
  /\ (Shown /\ allBlogs = <<>> /\ Requested(query) = {}) =>
       /\ view.articles = <<>>
       /\ view.allTags = <<>>
       /\ view.tagsFilter = <<>>
       /\ view.newsletter
  /\ (ShownLegacy /\ Given = <<>> /\ Requested(legacy.tagFilter) = {}) =>
       /\ legacy.cards = <<>>
       /\ legacy.featured = <<>>
       /\ ~legacy.hasTagFilter
       /\ legacy.newsletter

\* the legacy page rendered without an articles prop
C10_Witness ==
  /\ ShownLegacy
  /\ props.articles = Undefined
  /\ legacy.tagFilter = Undefined
  /\ legacy.cards = <<>>
  /\ ~legacy.threw

\* C11: no step of either page changes the article set: allBlogs is after
\* every step what it was before it, and the articles prop, once loaded,
\* stays as loaded (same articles, same order, same tags).
C11_ReadOnly ==
  [][/\ allBlogs' = allBlogs
     /\ props.articles.k = "array" => props'.articles = props.articles]_vars

\* a filter has hidden an article of the loaded list, and the shared list
\* and the loaded props still hold both articles
C11_Witness ==
  /\ Shown
  /\ load = "resolved"
  /\ Len(allBlogs) = 2
  /\ props.articles = Arr(allBlogs)
  /\ Len(view.articles) = 1

\* the articles of allBlogs that carry a label
Carriers(l) == {i \in DOMAIN allBlogs : l \in TagsOf(allBlogs[i])}

\* C12: the tag list of the blog page holds one entry for each label that is
\* on some article of allBlogs and no other entry; an entry counts the
\* articles that carry its label, and no count is zero.
C12_SummaryCounts ==
  Shown =>
    /\ \A i \in DOMAIN view.allTags : \A j \in DOMAIN view.allTags :
         i # j => view.allTags[i].tag # view.allTags[j].tag
    /\ SummaryLabels = UNION {TagsOf(allBlogs[i]) : i \in DOMAIN allBlogs}
    /\ \A i \in DOMAIN view.allTags :
         /\ view.allTags[i].count = Cardinality(Carriers(view.allTags[i].tag))
         /\ view.allTags[i].count > 0

\* a label on both articles is counted twice, a label on one of them once
C12_Witness ==
  /\ Shown
  /\ Len(allBlogs) = 2
  /\ \E i \in DOMAIN view.allTags : view.allTags[i].count = 2
  /\ \E i \in DOMAIN view.allTags : view.allTags[i].count = 1

\* C13: the loaded articles descend by date, and an article the legacy page
\* features is at least as recent as every article of the list it was given.
C13_MostRecentFeatured ==
  /\ load = "resolved" =>
       \A i \in DOMAIN Given : \A j \in DOMAIN Given :
         i < j => Given[i].date >= Given[j].date
  /\ (ShownLegacy /\ legacy.featured # <<>>) =>
       \A i \in DOMAIN Given : legacy.featured[1].date >= Given[i].date

\* the featured article is of a later day than the other article
C13_Witness ==
  /\ ShownLegacy
  /\ legacy.featured # <<>>
  /\ Len(Given) = 2
  /\ legacy.featured[1].date > Given[2].date

\* the links of a sequence of articles or of article cards, in its order
LinksOf(q) == [i \in DOMAIN q |-> q[i].link]

\* what blog.mdx lists for the list and the tag input the legacy page was given
SameInputOnBlog == Blog(legacy.tagFilter, Given).articles

\* q is p with some elements left out
IsSubsequence(q, p) ==
  \E f \in [DOMAIN q -> DOMAIN p] :
    /\ \A i \in DOMAIN q : p[f[i]] = q[i]
    /\ \A i \in DOMAIN q : \A j \in DOMAIN q : i < j => f[i] < f[j]

C15_SourceUnavailable ==
  /\ attempts <= 1
  /\ source = "unavailable" =>
       /\ load = "rejected"
       /\ attempts = 1
       /\ props.articles = Undefined
       /\ ~ShownLegacy
       /\ legacy = NoLegacy

\* the load of a source that holds two articles has failed
C15_Witness ==
  /\ source = "unavailable"
  /\ load = "rejected"
  /\ attempts = 1
  /\ Len(allBlogs) = 2

\* C16: the legacy page is never rendered while the load of getStaticProps
\* is pending, and a render that follows a load follows its success and
\* shows a card for every article of the source, none missing.
C16_LoadBeforeRender ==
  /\ load = "pending" => (~ShownLegacy /\ legacy = NoLegacy)
  /\ (ShownLegacy /\ attempts > 0) =>
       /\ load = "resolved"
       /\ props.articles = Arr(allBlogs)
       /\ LinksOf(legacy.cards) = LinksOf(allBlogs)

\* the legacy page rendered after the load of two articles
C16_Witness ==
  /\ ShownLegacy
  /\ attempts = 1
  /\ load = "resolved"
  /\ Len(legacy.cards) = 2

\* C17: whatever other call runs in between, a finished call of either
\* component holds the element it returns when it runs alone on its input.
C17_NoInterference ==
  \A r \in Renders :
    renders[r].pc = "done" =>
      /\ renders[r].page = "blog.mdx" =>
           renders[r].view = Blog(renders[r].input, allBlogs)
      /\ renders[r].page = "pages/blog.tsx" =>
           renders[r].legacy = LegacyBlog(props.articles, renders[r].input)

\* two calls of Blog with different tags have finished with different lists
C17_Witness ==
  /\ renders["a"].pc = "done"
  /\ renders["b"].pc = "done"
  /\ renders["a"].input = Str("react")
  /\ renders["b"].input = Arr(<<Str("webflow")>>)
  /\ Len(renders["a"].view.articles) = 1
  /\ Len(renders["b"].view.articles) = 1
  /\ renders["a"].view.articles # renders["b"].view.articles

\* C19: each page shows the newsletter exactly when its requested tag set is
\* empty, the legacy page shows it wherever blog.mdx shows it for the same
\* tag input, and it shows it for an empty list, where nothing is featured.
C19_Newsletter ==
  /\ Shown => (view.newsletter <=> Requested(query) = {})
  /\ ShownLegacy =>
       /\ legacy.newsletter <=> Requested(legacy.tagFilter) = {}
       /\ legacy.newsletter <=> Blog(legacy.tagFilter, Given).newsletter
       /\ (Given = <<>> /\ Requested(legacy.tagFilter) = {}) =>
            (legacy.newsletter /\ legacy.featured = <<>>)

\* the legacy page shows the newsletter for a loaded list without articles
C19_Witness ==
  /\ ShownLegacy
  /\ load = "resolved"
  /\ Given = <<>>
  /\ legacy.tagFilter = Arr(<<>>)
  /\ legacy.newsletter
  /\ legacy.featured = <<>>

\* C20: whenever the legacy page features an article, no filter is active,
\* its cards are all the articles it was given, which is also the list that
\* blog.mdx shows for that input, and the featured article is the first of
\* them.
C20_FeaturedIsHead ==
  (ShownLegacy /\ legacy.featured # <<>>) =>
    /\ ~legacy.hasTagFilter
    /\ Requested(legacy.tagFilter) = {}
    /\ LinksOf(legacy.cards) = LinksOf(Given)
    /\ SameInputOnBlog = Given
    /\ legacy.cards # <<>>
    /\ legacy.cards[1].link = legacy.featured[1].link

\* the first of two cards is the featured article
C20_Witness ==
  /\ ShownLegacy
  /\ legacy.featured # <<>>
  /\ Len(legacy.cards) = 2
  /\ legacy.cards[1].link = legacy.featured[1].link
  /\ legacy.cards[2].link # legacy.featured[1].link

\* what blog.mdx lists for allBlogs under another tag input
ListedFor(input) == Blog(input, allBlogs).articles

\* C21: a request of several tags lists exactly the articles that its first
\* part or its second part lists, wherever the request is split in two;
\* one more tag on a non-empty request removes no article; and a non-empty
\* request lists no article that the empty request does not list.
C21_UnionOfRequests ==
  (Shown /\ Requested(query) # {}) =>
    /\ \A k \in 1..(Len(view.tagsFilter) - 1) :
         Elems(view.articles) =
           Elems(ListedFor(Arr(SubSeq(view.tagsFilter, 1, k))))
             \cup Elems(ListedFor(Arr(SubSeq(view.tagsFilter, k + 1, Len(view.tagsFilter)))))
    /\ \A l \in Labels :
         Elems(view.articles) \subseteq
           Elems(ListedFor(Arr(Append(view.tagsFilter, Str(l)))))
    /\ Elems(view.articles) \subseteq Elems(ListedFor(Undefined))

\* react and webflow together list two articles, each of them alone lists
\* one, and the empty request lists both
C21_Witness ==
  /\ Shown
  /\ query = Arr(<<Str("react"), Str("webflow")>>)
  /\ Len(view.articles) = 2
  /\ Len(ListedFor(Arr(<<Str("react")>>))) = 1
  /\ Len(ListedFor(Arr(<<Str("webflow")>>))) = 1
  /\ ListedFor(Arr(<<Str("react")>>)) # ListedFor(Arr(<<Str("webflow")>>))
  /\ ListedFor(Undefined) = allBlogs

\* an article whose tags are missing or an empty list
Untagged(article) == article.tags = Undefined \/ article.tags = Arr(<<>>)

\* C22: an article without tags is not listed by blog.mdx under a non-empty
\* request and is listed at its own place under an empty one; the legacy
\* page renders it without throwing, its card at its own place with an
\* empty tag list.
C22_UntaggedArticles ==
  /\ Shown =>
       \A i \in DOMAIN allBlogs :
         Untagged(allBlogs[i]) =>
           /\ Requested(query) # {} => allBlogs[i] \notin Elems(view.articles)
           /\ Requested(query) = {} =>
                (i \in DOMAIN view.articles /\ view.articles[i] = allBlogs[i])
  /\ ShownLegacy =>
       /\ ~legacy.threw
       /\ \A i \in DOMAIN Given :
            Untagged(Given[i]) =>
              /\ i \in DOMAIN legacy.cards
              /\ legacy.cards[i].link = Given[i].link
              /\ legacy.cards[i].tags = Arr(<<>>)

\* of an article without a tags field and one with an empty tag list, a
\* request lists neither, though one tagged article is among them
C22_Witness ==
  /\ Shown
  /\ Requested(query) # {}
  /\ Len(allBlogs) = 2
  /\ allBlogs[1].tags = Undefined
  /\ allBlogs[2].tags = Arr(<<>>)
  /\ view.articles = <<>>

\* C23: filtering is idempotent: blog.mdx run again with the same request on
\* the list it has produced lists the same articles in the same order.
C23_Idempotent ==
  Shown => Blog(query, view.articles).articles = view.articles

\* a request that keeps one of two tagged articles, run again on the one
\* it has kept
C23_Witness ==
  /\ Shown
  /\ Requested(query) # {}
  /\ Len(allBlogs) = 2
  /\ Len(view.articles) = 1
  /\ TagsOf(allBlogs[1]) # {}
  /\ TagsOf(allBlogs[2]) # {}
  /\ Blog(query, view.articles).articles = view.articles

====
